---- MODULE Spec2Model ----
(***************************************************************************)
(* The customer-service pipeline of backend/src/agent.js (enhanced agent,  *)
(* instrumented with the Handit SDK) and backend/src/simpleAgent.js         *)
(* (standard agent): classify intent -> search knowledge base -> generate  *)
(* response, behind the two POST handlers of backend/src/server.js.  Every  *)
(* await is one step.                                                       *)
(* The model (llm.invoke), the embedding service and the vector store are   *)
(* deterministic stubs whose answers are fixed the first time an input is   *)
(* seen; the Handit calls (startTracing, trackNode, endTracing,             *)
(* fetchOptimizedPrompt) answer or throw freely at every call.              *)
(***************************************************************************)
EXTENDS Integers, Sequences, FiniteSets, TLC

(***************************** bounds **************************************)
\* number of distinct user texts a request may carry
NumUserTexts == 2
\* number of documents the knowledge base may hold (the store answers topK of them)
MaxDocs == 4
\* number of distinct non-empty override prompts Handit may supply
NumOverrides == 1

(***************************** JS values ***********************************)
Undefined == [t |-> "undefined"]
Null == [t |-> "null"]
\* a string identified by a number; id 0 is the empty string ''
Text(i) == [t |-> "text", id |-> i]
\* a string naming an intent category; '' is the empty string
Cat(c) == [t |-> "cat", name |-> c]
\* a number, in tenths (9 is 0.9, 10 is 1, 15 is 1.5)
Num(n) == [t |-> "num", tenths |-> n]

UserTexts == {Text(i) : i \in 1..NumUserTexts}

\* req.body.message of a POST: a text, the empty string, or missing
BodyMessages == UserTexts \cup {Text(0), Undefined}

\* JavaScript truthiness, as used by the `!x` tests of classifyIntent
Truthy(v) ==
    CASE v.t = "undefined" -> FALSE
      [] v.t = "null" -> FALSE
      [] v.t = "text" -> v.id # 0
      [] v.t = "cat" -> v.name # ""
      [] v.t = "num" -> v.tenths # 0
      [] OTHER -> TRUE

\* a JSON object as JSON.parse returns it; a missing field reads as undefined
Obj(i, c, u, r) == [t |-> "obj", intent |-> i, confidence |-> c, userMessage |-> u, response |-> r]

\* property access on a stageOutput JSON value: null.x throws a TypeError
CanReadFields(v) == v.t = "obj"

(***************************** errors **************************************)
\* an Error object: what failed, at which call site it was raised, and the stage name
\* attached to it (no throw or catch of either agent sets one)
Err(kind, site) == [kind |-> kind, site |-> site, stage |-> Undefined]
NoErr == Err("none", "none")

(***************************** model output ********************************)
\* response.content of the chat model: a JSON body, possibly wrapped in prose
\* (or a ``` fence) and possibly holding raw control characters in a string
NotJson == [t |-> "notjson"]
Content(body, wrapped, ctl) == [body |-> body, wrapped |-> wrapped, ctl |-> ctl]

\* the echo of the user message a model may return instead of the original
Paraphrase == Text(NumUserTexts + 1)
\* the answer text a model may return
Answer == Text(NumUserTexts + 2)

Categories == {"support_request", "billing_inquiry", "product_question", "complaint"}

\* what the stub model may answer in the classify stage for user text u
ClassifyContents(u) ==
    { Content(Obj(Cat("product_question"), Num(9), u, Undefined), w, FALSE) : w \in BOOLEAN }
    \cup { Content(Obj(Cat("product_question"), Num(9), u, Undefined), FALSE, TRUE),
           Content(Obj(Cat("refund"), Num(15), u, Undefined), FALSE, FALSE),
           Content(Obj(Cat("billing_inquiry"), Num(0), u, Undefined), FALSE, FALSE),
           Content(Obj(Cat("support_request"), Num(10), Paraphrase, Undefined), FALSE, FALSE),
           Content(Obj(Undefined, Num(9), u, Undefined), FALSE, FALSE),
           Content(Obj(Cat("complaint"), Undefined, u, Undefined), FALSE, FALSE),
           Content(Obj(Cat("complaint"), Num(9), Undefined, Undefined), FALSE, FALSE),
           Content(Null, FALSE, FALSE),
           Content(NotJson, FALSE, FALSE) }

\* what the stub model may answer in the generate stage
GenerateContents ==
    { Content(Obj(Undefined, Undefined, Undefined, Answer), w, FALSE) : w \in BOOLEAN }
    \cup { Content(Obj(Undefined, Undefined, Undefined, Answer), FALSE, TRUE),
           Content(Obj(Undefined, Undefined, Undefined, Undefined), FALSE, FALSE),
           Content(Obj(Undefined, Undefined, Undefined, Text(0)), FALSE, FALSE),
           Content(Null, FALSE, FALSE),
           Content(NotJson, FALSE, FALSE) }

\* response.content.trim().replace(/^[^{]*/, '').replace(/[^}]*$/, ''):
\* drops everything before the first '{' and after the last '}'
CleanClassify(c) ==
    Content(IF c.body.t = "obj" THEN c.body ELSE NotJson, FALSE, c.ctl)

\* response.content.replace(/[\u0000-\u001F\u007F-\u009F]/g, ''): drops control characters
CleanGenerate(c) == Content(c.body, c.wrapped, FALSE)

\* JSON.parse throws a SyntaxError unless the whole text is one JSON value
Parses(c) == c.body.t # "notjson" /\ ~c.wrapped /\ ~c.ctl
JsonParse(c) == c.body

\* if (!stageOutputResponse.intent || !stageOutputResponse.confidence || !stageOutputResponse.userMessage) throw
ValidIntent(p) ==
    /\ CanReadFields(p)
    /\ Truthy(p.intent)
    /\ Truthy(p.confidence)
    /\ Truthy(p.userMessage)

\* a classifyIntent that parses the output and skips the validation of its fields
ClassifyAcceptsUnvalidated(c) == Parses(CleanClassify(c)) /\ CanReadFields(JsonParse(CleanClassify(c)))

\* the inner try block of classifyIntent up to the validation: clean, parse, validate
ClassifyAccepts(c) == Parses(CleanClassify(c)) /\ ValidIntent(JsonParse(CleanClassify(c)))

\* the clean and parse lines of generateResponse: no validation of the stageOutput value
GenerateAccepts(c) == Parses(CleanGenerate(c))

(***************************** prompts *************************************)
\* the template literal `prompt` of classifyIntent
ClassifyPrompt(u) ==
    [t |-> "tmpl", step |-> "classifyIntent", um |-> u, cat |-> Undefined, knowledge |-> <<>>]

\* the template literal `prompt` of generateResponse
GeneratePrompt(ctx) ==
    [t |-> "tmpl", step |-> "generateResponse", um |-> ctx.intent.userMessage,
     cat |-> ctx.intent.intent, knowledge |-> ctx.results]

\* an override prompt text supplied by Handit
Override(i) == [t |-> "override", id |-> i]

\* what fetchOptimizedPrompt may resolve to: no override (null or undefined), or an override
PromptAnswers == {Null, Undefined} \cup {Override(i) : i \in 1..NumOverrides}

\* a bestPrompt that tests only optimizedPrompt !== null
BestPromptNullOnly(optimized, prompt) == IF optimized # Null THEN optimized ELSE prompt

\* optimizedPrompt !== null && optimizedPrompt !== undefined ? optimizedPrompt : prompt
BestPrompt(optimized, prompt) ==
    IF optimized # Null /\ optimized # Undefined THEN optimized ELSE prompt

\* the messages array handed to llm.invoke
Messages(system, u) == [system |-> system, user |-> u]

(***************************** knowledge store *****************************)
\* embeddings.embedQuery(text)
Embed(text) == [t |-> "vec", of |-> text]

Min(a, b) == IF a < b THEN a ELSE b

\* namespace.query({vector, topK, includeMetadata: true}) on an index of n documents:
\* the topK nearest, most relevant first
StoreQuery(n, vector, topK) ==
    [i \in 1..Min(n, topK) |-> [id |-> i, score |-> MaxDocs + 1 - i, metadata |-> [text |-> i]]]

\* topK: 3
TopK == 3

\* a searchResults object that lists the matches in reverse order
SearchResultsReversed(matches, intent) ==
    [results |-> [i \in 1..Len(matches) |->
                    [pageContent |-> matches[Len(matches) + 1 - i].metadata.text,
                     metadata |-> matches[Len(matches) + 1 - i].metadata]],
     count |-> Len(matches),
     intent |-> intent]

\* the searchResults object built from results.matches
SearchResults(matches, intent) ==
    [results |-> [i \in 1..Len(matches) |->
                    [pageContent |-> matches[i].metadata.text, metadata |-> matches[i].metadata]],
     count |-> Len(matches),
     intent |-> intent]

(***************************** state ***************************************)
\* the requests: one POST /api/chat/simple, two POST /api/chat
StdRuns == {"std"}
EnhRuns == {"enh", "enh2"}
Runs == StdRuns \cup EnhRuns

VARIABLES
    handitKey,        \* process.env.HANDIT_API_KEY is set
    pineconeOk,       \* the Pinecone client and index can be constructed
    nDocs,            \* number of documents seeded in the knowledge base
    userMessage,      \* userMessage[r]: req.body.message of request r, passed to the run
    res,              \* res[r]: the HTTP response sent to request r
    pc,               \* pc[r]: the await run r is suspended at
    tracingResponse,  \* tracingResponse[r] of processRequestVersion2
    optimizedPrompt,  \* optimizedPrompt[r] of the stage in progress, until bestPrompt is sent
    messages,         \* messages[r] of the stage in progress
    stageOutput,      \* stageOutputResponse / searchResults / result of run r, not yet returned
    intent,           \* intent[r] of processCustomerRequest
    context,          \* context[r] of processCustomerRequest
    err,              \* err[r]: the error being thrown or handled
    firstErr,         \* firstErr[r]: the first error raised in run r (history)
    result,           \* result[r]: what the caller of the run receives
    calls,            \* calls[r]: the external calls run r has made, in order
    llmStub,          \* the stub model: messages -> content or throw, once fixed
    embedStub,        \* the stub embedding service: text -> ok or throw
    queryStub,        \* the stub vector store: vector -> ok or throw
    chat,             \* chat[w]: the `messages` state of chat window w
    isLoading,        \* isLoading[w]: the `isLoading` state of chat window w
    posts             \* the requests generateResponse has posted, in order

vars == <<handitKey, pineconeOk, nDocs, userMessage, res, pc, tracingResponse, optimizedPrompt,
          messages, stageOutput, intent, context, err, firstErr, result, calls, llmStub,
          embedStub, queryStub, chat, isLoading, posts>>

\* the browser's state
ui == <<chat, isLoading, posts>>

env == <<handitKey, pineconeOk, nDocs, userMessage>>
stubs == <<llmStub, embedStub, queryStub>>

None == [t |-> "none"]
Throws == [t |-> "throw"]
Pending == [status |-> "pending", value |-> None, error |-> NoErr]
Returned(v) == [status |-> "ok", value |-> v, error |-> NoErr]
Thrown(e) == [status |-> "error", value |-> None, error |-> e]

EmptyStub == [k \in {} |-> None]

\* an HTTP response: res.status(code).json(body); status 0 while none is sent
Response(code, body) == [status |-> code, body |-> body]
NoResponse == Response(0, None)

\* the two chat windows of the Chat page: 'Without Handit AI' and 'Handit AI Optimization'
Windows == {"ChatWindow", "TechChatWindow"}

\* a text the components supply themselves
Literal(name) == [t |-> "literal", name |-> name]

\* useState([{ id: 1, text: "Hello! ...", sender: "bot" }])
Greeting == [id |-> 1, text |-> Literal("greeting"), sender |-> "bot"]

\* the await a run starts at
Start(r) == IF r \in EnhRuns THEN "start" ELSE "init"

\* the state before any request is processed; `arrived` are the requests posted
InitWith(arrived) ==
    /\ handitKey \in BOOLEAN
    /\ pineconeOk \in BOOLEAN
    /\ nDocs \in 0..MaxDocs
    /\ userMessage \in [Runs -> BodyMessages]
    /\ \A r \in Runs \ arrived : userMessage[r] = Undefined
    /\ res = [r \in Runs |-> NoResponse]
    /\ pc = [r \in Runs |-> IF r \in arrived THEN "posted" ELSE "idle"]
    /\ tracingResponse = [r \in Runs |-> Null]
    /\ optimizedPrompt = [r \in Runs |-> None]
    /\ messages = [r \in Runs |-> None]
    /\ stageOutput = [r \in Runs |-> None]
    /\ intent = [r \in Runs |-> None]
    /\ context = [r \in Runs |-> None]
    /\ err = [r \in Runs |-> NoErr]
    /\ firstErr = [r \in Runs |-> NoErr]
    /\ result = [r \in Runs |-> Pending]
    /\ calls = [r \in Runs |-> <<>>]
    /\ llmStub = EmptyStub
    /\ embedStub = EmptyStub
    /\ queryStub = EmptyStub
    /\ chat = [w \in Windows |-> <<Greeting>>]
    /\ isLoading = [w \in Windows |-> FALSE]
    /\ posts = <<>>

(***************************** stub calls **********************************)
\* the answers a stub may give to key k: the one it gave before, else any of `fresh`
Answers(stub, k, fresh) == IF k \in DOMAIN stub THEN {stub[k]} ELSE fresh
Fix(stub, k, a) == (k :> a) @@ stub

Call(op, arg) == [op |-> op, arg |-> arg]
Log(r, op, arg) == calls' = [calls EXCEPT ![r] = Append(@, Call(op, arg))]

Goto(r, l) == pc' = [pc EXCEPT ![r] = l]

\* the run goes on to its next await without an error being raised
Continue(r, l) == Goto(r, l) /\ UNCHANGED firstErr

\* an error is raised: the first one of a run is remembered
Raised(r, e) == firstErr' = [firstErr EXCEPT ![r] = IF @ = NoErr THEN e ELSE @]

\* the run ends: the caller receives a value or an error
Return(r, v) == /\ Goto(r, "done")
                /\ result' = [result EXCEPT ![r] = Returned(v)]
                /\ UNCHANGED firstErr
Throw(r, e) == /\ Goto(r, "failed")
               /\ result' = [result EXCEPT ![r] = Thrown(e)]
               /\ Raised(r, e)

(***************************** HTTP boundary *******************************)
\* error.message: the text of an error tells what failed, not where
ErrorMessage(e) == [t |-> "message", kind |-> e.kind]

\* a handler without the `if (!message)` test
ReceiveUnchecked(r) ==
    /\ pc[r] = "posted"
    /\ Continue(r, Start(r))
    /\ UNCHANGED <<ui, env, res, stubs, tracingResponse, optimizedPrompt, messages, stageOutput,
                   intent, context, err, result, calls>>

\* app.post('/api/chat') and app.post('/api/chat/simple'), up to the await:
\* if (!message) return res.status(400).json({ error: 'Message is required' });
\* else call main(message), respectively processSimpleRequest(message)
Receive(r) ==
    /\ pc[r] = "posted"
    /\ IF Truthy(userMessage[r])
       THEN Continue(r, Start(r)) /\ UNCHANGED res
       ELSE /\ res' = [res EXCEPT ![r] = Response(400, [error |-> "Message is required"])]
            /\ Continue(r, "rejected")
    /\ UNCHANGED <<ui, handitKey, pineconeOk, nDocs, userMessage, stubs, tracingResponse,
                   optimizedPrompt, messages, stageOutput, intent, context, err, result, calls>>

\* a handler whose catch block answers like the success path
RespondAlwaysSuccess(r) ==
    /\ pc[r] \in {"done", "failed"} /\ res[r] = NoResponse
    /\ res' = [res EXCEPT ![r] =
                  Response(200, [status |-> "success", data |-> result[r].value])]
    /\ UNCHANGED <<ui, handitKey, pineconeOk, nDocs, userMessage, pc, stubs, tracingResponse,
                   optimizedPrompt, messages, stageOutput, intent, context, err, firstErr,
                   result, calls>>

\* the handlers after the await: res.json({ status: 'success', data: result }), or in the
\* catch block res.status(500).json({ error: 'Internal server error', message: error.message })
Respond(r) ==
    /\ pc[r] \in {"done", "failed"} /\ res[r] = NoResponse
    /\ res' = [res EXCEPT ![r] =
                  IF result[r].status = "ok"
                  THEN Response(200, [status |-> "success", data |-> result[r].value])
                  ELSE Response(500, [error |-> "Internal server error",
                                      message |-> ErrorMessage(result[r].error)])]
    /\ UNCHANGED <<ui, handitKey, pineconeOk, nDocs, userMessage, pc, stubs, tracingResponse,
                   optimizedPrompt, messages, stageOutput, intent, context, err, firstErr,
                   result, calls>>

HttpNext(r) == Receive(r) \/ Respond(r)

(***************************** standard agent ******************************)
\* processRequest: new SimpleCustomerServiceAgent(); await agent.initializePinecone()
S_InitializePinecone(r) ==
    /\ r \in StdRuns /\ pc[r] = "init"
    /\ IF pineconeOk
       THEN Continue(r, "classify") /\ UNCHANGED result
       ELSE Throw(r, Err("PineconeError", "initializePinecone"))
    /\ UNCHANGED <<ui, env, res, stubs, tracingResponse, optimizedPrompt, messages, stageOutput, intent,
                   context, err, calls>>

\* a processCustomerRequest that calls classifyIntent without await: the pending promise
\* (an object without the fields of an intent) is handed to the retrieve stage at once
S_ClassifyIntentNotAwaited(r) ==
    /\ r \in StdRuns /\ pc[r] = "classify"
    /\ intent' = [intent EXCEPT ![r] = Obj(Undefined, Undefined, Undefined, Undefined)]
    /\ Continue(r, "embed")
    /\ UNCHANGED <<ui, env, res, stubs, tracingResponse, optimizedPrompt, messages, stageOutput, context,
                   err, result, calls>>

\* classifyIntent: llm.invoke(messages), clean, parse, validate; every catch rethrows
S_ClassifyIntent(r) ==
    /\ r \in StdRuns /\ pc[r] = "classify"
    /\ LET msgs == Messages(ClassifyPrompt(userMessage[r]), userMessage[r]) IN
       \E a \in Answers(llmStub, msgs, ClassifyContents(userMessage[r]) \cup {Throws}) :
         /\ llmStub' = Fix(llmStub, msgs, a)
         /\ Log(r, "llm.classify", msgs)
         /\ IF a = Throws
            THEN Throw(r, Err("LLMError", "classifyIntent")) /\ UNCHANGED intent
            ELSE IF ClassifyAccepts(a)
            THEN /\ intent' = [intent EXCEPT ![r] = JsonParse(CleanClassify(a))]
                 /\ Continue(r, "embed") /\ UNCHANGED result
            ELSE Throw(r, Err("ParseError", "classifyIntent")) /\ UNCHANGED intent
    /\ UNCHANGED <<ui, env, res, embedStub, queryStub, tracingResponse, optimizedPrompt, messages,
                   stageOutput, context, err>>

\* a searchKnowledgeBase that calls embedQuery again when it throws
S_EmbedQueryRetried(r) ==
    /\ r \in StdRuns /\ pc[r] = "embed"
    /\ LET text == intent[r].userMessage IN
       \E a \in Answers(embedStub, text, {"ok", "throw"}) :
         /\ embedStub' = Fix(embedStub, text, a)
         /\ Log(r, "embedQuery", text)
         /\ Continue(r, IF a = "ok" THEN "query" ELSE "embed")
    /\ UNCHANGED <<ui, env, res, llmStub, queryStub, tracingResponse, optimizedPrompt, messages,
                   stageOutput, intent, context, err, result>>

\* searchKnowledgeBase: await this.embeddings.embedQuery(intent.userMessage)
S_EmbedQuery(r) ==
    /\ r \in StdRuns /\ pc[r] = "embed"
    /\ LET text == intent[r].userMessage IN
       \E a \in Answers(embedStub, text, {"ok", "throw"}) :
         /\ embedStub' = Fix(embedStub, text, a)
         /\ Log(r, "embedQuery", text)
         /\ IF a = "ok"
            THEN Continue(r, "query") /\ UNCHANGED result
            ELSE Throw(r, Err("StoreError", "embedQuery"))
    /\ UNCHANGED <<ui, env, res, llmStub, queryStub, tracingResponse, optimizedPrompt, messages,
                   stageOutput, intent, context, err>>

\* searchKnowledgeBase: await this.namespace.query(...), then format and return
S_Query(r) ==
    /\ r \in StdRuns /\ pc[r] = "query"
    /\ LET vector == Embed(intent[r].userMessage) IN
       \E a \in Answers(queryStub, vector, {"ok", "throw"}) :
         /\ queryStub' = Fix(queryStub, vector, a)
         /\ Log(r, "query", [vector |-> vector, topK |-> TopK])
         /\ IF a = "ok"
            THEN /\ context' = [context EXCEPT ![r] =
                                  SearchResults(StoreQuery(nDocs, vector, TopK), intent[r])]
                 /\ Continue(r, "generate") /\ UNCHANGED result
            ELSE Throw(r, Err("StoreError", "query")) /\ UNCHANGED context
    /\ UNCHANGED <<ui, env, res, llmStub, embedStub, tracingResponse, optimizedPrompt, messages,
                   stageOutput, intent, err>>

\* generateResponse: llm.invoke(messages), clean, parse, return; then
\* processCustomerRequest returns { response, intent }
S_GenerateResponse(r) ==
    /\ r \in StdRuns /\ pc[r] = "generate"
    /\ LET msgs == Messages(GeneratePrompt(context[r]), context[r].intent.userMessage) IN
       \E a \in Answers(llmStub, msgs, GenerateContents \cup {Throws}) :
         /\ llmStub' = Fix(llmStub, msgs, a)
         /\ Log(r, "llm.generate", msgs)
         /\ IF a = Throws
            THEN Throw(r, Err("LLMError", "generateResponse"))
            ELSE IF GenerateAccepts(a)
            THEN Return(r, [response |-> JsonParse(CleanGenerate(a)), intent |-> intent[r]])
            ELSE Throw(r, Err("SyntaxError", "generateResponse"))
    /\ UNCHANGED <<ui, env, res, embedStub, queryStub, tracingResponse, optimizedPrompt, messages,
                   stageOutput, intent, context, err>>

StdNext(r) ==
    \/ S_InitializePinecone(r)
    \/ S_ClassifyIntent(r)
    \/ S_EmbedQuery(r)
    \/ S_Query(r)
    \/ S_GenerateResponse(r)

(***************************** enhanced agent ******************************)
ExecId(r) == [t |-> "id", run |-> r]
TracingResponse(id) == [t |-> "resp", executionId |-> id]

\* what startTracing may resolve to: a session, a response without an id, or null
TracingAnswers(r) == {TracingResponse(ExecId(r)), TracingResponse(Undefined), Null}

\* an executionId kept in a variable shared by all requests, which the startTracing of
\* another request has overwritten
ExecutionIdShared(r) ==
    LET others == {q \in EnhRuns \ {r} : tracingResponse[q].t = "resp"} IN
    IF others # {} THEN tracingResponse[CHOOSE q \in others : TRUE].executionId
    ELSE IF tracingResponse[r].t = "resp" THEN tracingResponse[r].executionId
    ELSE Undefined

\* const executionId = tracingResponse.executionId
ExecutionId(r) == IF tracingResponse[r].t = "resp" THEN tracingResponse[r].executionId ELSE Undefined

\* trackNode({ input, output, nodeName, agentName, nodeType, executionId })
Track(r, node, input, output) ==
    Log(r, "trackNode", [nodeName |-> node, input |-> input, output |-> output,
                         executionId |-> ExecutionId(r)])
TrackError(site) == Err("TrackError", site)

\* the locals of a stage go out of scope when the stage returns or throws
LeaveStage(r) ==
    /\ optimizedPrompt' = [optimizedPrompt EXCEPT ![r] = None]
    /\ messages' = [messages EXCEPT ![r] = None]
    /\ stageOutput' = [stageOutput EXCEPT ![r] = None]

\* throw e inside a try block: control passes to the catch block at l
Raise(r, e, l) == err' = [err EXCEPT ![r] = e] /\ Raised(r, e) /\ Goto(r, l)

\* a processRequestVersion2 that starts the session without checking HANDIT_API_KEY
E_StartTracingUnchecked(r) ==
    /\ r \in EnhRuns /\ pc[r] = "start"
    /\ \E a \in TracingAnswers(r) \cup {Throws} :
         /\ Log(r, "startTracing", a)
         /\ IF a = Throws
            THEN /\ Raise(r, Err("TracingError", "startTracing"), "v2_catch")
                 /\ UNCHANGED tracingResponse
            ELSE /\ tracingResponse' = [tracingResponse EXCEPT ![r] = a]
                 /\ IF a = Null
                    THEN Raise(r, Err("TypeError", "tracingResponse.executionId"), "v2_catch")
                    ELSE Continue(r, "init") /\ UNCHANGED err
    /\ UNCHANGED <<ui, env, res, stubs, optimizedPrompt, messages, stageOutput, intent, context, result>>

\* processRequestVersion2: the HANDIT_API_KEY check, then await startTracing(...); the call
\* is logged with what it returned
E_StartTracing(r) ==
    /\ r \in EnhRuns /\ pc[r] = "start"
    /\ IF ~handitKey
       THEN /\ Raise(r, Err("ConfigError", "HANDIT_API_KEY"), "v2_catch")
            /\ UNCHANGED <<tracingResponse, calls>>
       ELSE \E a \in TracingAnswers(r) \cup {Throws} :
              /\ Log(r, "startTracing", a)
              /\ IF a = Throws
                 THEN /\ Raise(r, Err("TracingError", "startTracing"), "v2_catch")
                      /\ UNCHANGED tracingResponse
                 ELSE /\ tracingResponse' = [tracingResponse EXCEPT ![r] = a]
                      /\ IF a = Null
                         THEN Raise(r, Err("TypeError", "tracingResponse.executionId"),
                                    "v2_catch")
                         ELSE Continue(r, "init") /\ UNCHANGED err
    /\ UNCHANGED <<ui, env, res, stubs, optimizedPrompt, messages, stageOutput, intent, context, result>>

\* processRequestVersion2: new CustomerServiceAgent(); await agent.initializePinecone()
E_InitializePinecone(r) ==
    /\ r \in EnhRuns /\ pc[r] = "init"
    /\ IF pineconeOk
       THEN Continue(r, "pcr_track") /\ UNCHANGED err
       ELSE Raise(r, Err("PineconeError", "initializePinecone"), "v2_catch")
    /\ UNCHANGED <<ui, env, res, stubs, tracingResponse, optimizedPrompt, messages, stageOutput, intent,
                   context, result, calls>>

\* processCustomerRequest: await trackNode({ input: { userMessage }, nodeName: 'processCustomerRequest' })
E_TrackRequest(r) ==
    /\ r \in EnhRuns /\ pc[r] = "pcr_track"
    /\ Track(r, "processCustomerRequest", userMessage[r], Undefined)
    /\ \E ok \in BOOLEAN :
         IF ok THEN Continue(r, "cls_fetch") /\ UNCHANGED err
               ELSE Raise(r, TrackError("processCustomerRequest.start"), "pcr_catch")
    /\ UNCHANGED <<ui, env, res, stubs, tracingResponse, optimizedPrompt, messages, stageOutput, intent,
                   context, result>>

\* classifyIntent: await fetchOptimizedPrompt({ modelId: 'classifyIntent' }), bestPrompt, messages
E_ClassifyFetchPrompt(r) ==
    /\ r \in EnhRuns /\ pc[r] = "cls_fetch"
    /\ Log(r, "fetchOptimizedPrompt", "classifyIntent")
    /\ \E a \in PromptAnswers \cup {Throws} :
         IF a = Throws
         THEN /\ Raise(r, Err("FetchPromptError", "classifyIntent"), "pcr_catch")
              /\ UNCHANGED <<optimizedPrompt, messages>>
         ELSE /\ optimizedPrompt' = [optimizedPrompt EXCEPT ![r] = a]
              /\ messages' = [messages EXCEPT ![r] =
                    Messages(BestPrompt(a, ClassifyPrompt(userMessage[r])), userMessage[r])]
              /\ Continue(r, "cls_llm") /\ UNCHANGED err
    /\ UNCHANGED <<ui, env, res, stubs, tracingResponse, stageOutput, intent, context, result>>

\* classifyIntent: await this.llm.invoke(messages), clean, parse, validate
E_ClassifyInvoke(r) ==
    /\ r \in EnhRuns /\ pc[r] = "cls_llm"
    /\ \E a \in Answers(llmStub, messages[r], ClassifyContents(userMessage[r]) \cup {Throws}) :
         /\ llmStub' = Fix(llmStub, messages[r], a)
         /\ Log(r, "llm.classify", messages[r])
         /\ IF a = Throws
            THEN /\ Raise(r, Err("LLMError", "classifyIntent"), "pcr_catch")
                 /\ LeaveStage(r)
            ELSE IF ClassifyAccepts(a)
            THEN /\ stageOutput' = [stageOutput EXCEPT ![r] = JsonParse(CleanClassify(a))]
                 /\ optimizedPrompt' = [optimizedPrompt EXCEPT ![r] = None]
                 /\ Continue(r, "cls_track")
                 /\ UNCHANGED <<err, messages>>
            ELSE /\ Raise(r, Err("InvalidResponse", "classifyIntent"), "cls_track_err")
                 /\ optimizedPrompt' = [optimizedPrompt EXCEPT ![r] = None]
                 /\ UNCHANGED <<messages, stageOutput>>
    /\ UNCHANGED <<ui, env, res, embedStub, queryStub, tracingResponse, intent, context, result>>

\* classifyIntent: await trackNode({ input: messages, output: parsedResponse }); return parsedResponse
E_ClassifyTrack(r) ==
    /\ r \in EnhRuns /\ pc[r] = "cls_track"
    /\ Track(r, "classifyIntent", messages[r], stageOutput[r])
    /\ \E ok \in BOOLEAN :
         IF ok
         THEN /\ intent' = [intent EXCEPT ![r] = stageOutput[r]]
              /\ LeaveStage(r)
              /\ Continue(r, "embed") /\ UNCHANGED err
         ELSE /\ Raise(r, TrackError("classifyIntent.ok"), "cls_track_err")
              /\ UNCHANGED <<intent, optimizedPrompt, messages, stageOutput>>
    /\ UNCHANGED <<ui, env, res, stubs, tracingResponse, context, result>>

\* classifyIntent, catch (parseError): await trackNode({ input: { prompt }, output: parseError });
\* throw new Error('Failed to parse LLM response as JSON')
E_ClassifyTrackError(r) ==
    /\ r \in EnhRuns /\ pc[r] = "cls_track_err"
    /\ Track(r, "classifyIntent", ClassifyPrompt(userMessage[r]), err[r])
    /\ \E ok \in BOOLEAN :
         IF ok THEN Raise(r, Err("ParseError", "classifyIntent"), "pcr_catch")
               ELSE Raise(r, TrackError("classifyIntent.error"), "pcr_catch")
    /\ LeaveStage(r)
    /\ UNCHANGED <<ui, env, res, stubs, tracingResponse, intent, context, result>>

\* a searchKnowledgeBase that reads the intent from a field of an agent object shared by
\* all requests, where another request's classifyIntent may have stored its own
E_EmbedQuerySharedIntent(r) ==
    /\ r \in EnhRuns /\ pc[r] = "embed"
    /\ LET others == {q \in Runs \ {r} : intent[q] # None}
           shared == IF others # {} THEN intent[CHOOSE q \in others : TRUE] ELSE intent[r]
           text == shared.userMessage
       IN  \E a \in Answers(embedStub, text, {"ok", "throw"}) :
             /\ embedStub' = Fix(embedStub, text, a)
             /\ Log(r, "embedQuery", text)
             /\ IF a = "ok"
                THEN Continue(r, "query") /\ UNCHANGED err
                ELSE Raise(r, Err("StoreError", "embedQuery"), "skb_track_err")
    /\ UNCHANGED <<ui, env, res, llmStub, queryStub, tracingResponse, optimizedPrompt, messages,
                   stageOutput, intent, context, result>>

\* searchKnowledgeBase: await this.embeddings.embedQuery(intent.userMessage)
E_EmbedQuery(r) ==
    /\ r \in EnhRuns /\ pc[r] = "embed"
    /\ LET text == intent[r].userMessage IN
       \E a \in Answers(embedStub, text, {"ok", "throw"}) :
         /\ embedStub' = Fix(embedStub, text, a)
         /\ Log(r, "embedQuery", text)
         /\ IF a = "ok"
            THEN Continue(r, "query") /\ UNCHANGED err
            ELSE Raise(r, Err("StoreError", "embedQuery"), "skb_track_err")
    /\ UNCHANGED <<ui, env, res, llmStub, queryStub, tracingResponse, optimizedPrompt, messages,
                   stageOutput, intent, context, result>>

\* searchKnowledgeBase: await this.namespace.query(...), then build searchResults
E_Query(r) ==
    /\ r \in EnhRuns /\ pc[r] = "query"
    /\ LET vector == Embed(intent[r].userMessage) IN
       \E a \in Answers(queryStub, vector, {"ok", "throw"}) :
         /\ queryStub' = Fix(queryStub, vector, a)
         /\ Log(r, "query", [vector |-> vector, topK |-> TopK])
         /\ IF a = "ok"
            THEN /\ stageOutput' = [stageOutput EXCEPT ![r] =
                                      SearchResults(StoreQuery(nDocs, vector, TopK), intent[r])]
                 /\ Continue(r, "skb_track") /\ UNCHANGED err
            ELSE /\ Raise(r, Err("StoreError", "query"), "skb_track_err")
                 /\ UNCHANGED stageOutput
    /\ UNCHANGED <<ui, env, res, llmStub, embedStub, tracingResponse, optimizedPrompt, messages, intent,
                   context, result>>

\* a searchKnowledgeBase that returns its results without reporting them
E_SearchTrackSkipped(r) ==
    /\ r \in EnhRuns /\ pc[r] = "skb_track"
    /\ context' = [context EXCEPT ![r] = stageOutput[r]]
    /\ stageOutput' = [stageOutput EXCEPT ![r] = None]
    /\ Continue(r, "gen_fetch")
    /\ UNCHANGED <<ui, env, res, stubs, tracingResponse, optimizedPrompt, messages, intent, result,
                   err, calls>>

\* searchKnowledgeBase: await trackNode({ input: intent, output: searchResults }); return searchResults
E_SearchTrack(r) ==
    /\ r \in EnhRuns /\ pc[r] = "skb_track"
    /\ Track(r, "searchKnowledgeBase", intent[r], stageOutput[r])
    /\ \E ok \in BOOLEAN :
         IF ok
         THEN /\ context' = [context EXCEPT ![r] = stageOutput[r]]
              /\ stageOutput' = [stageOutput EXCEPT ![r] = None]
              /\ Continue(r, "gen_fetch") /\ UNCHANGED err
         ELSE /\ Raise(r, TrackError("searchKnowledgeBase.ok"), "skb_track_err")
              /\ UNCHANGED <<context, stageOutput>>
    /\ UNCHANGED <<ui, env, res, stubs, tracingResponse, optimizedPrompt, messages, intent, result>>

\* searchKnowledgeBase, catch (error): await trackNode({ input: intent, output: error }); throw error
E_SearchTrackError(r) ==
    /\ r \in EnhRuns /\ pc[r] = "skb_track_err"
    /\ Track(r, "searchKnowledgeBase", intent[r], err[r])
    /\ \E ok \in BOOLEAN :
         IF ok THEN Continue(r, "pcr_catch") /\ UNCHANGED err
               ELSE Raise(r, TrackError("searchKnowledgeBase.error"), "pcr_catch")
    /\ stageOutput' = [stageOutput EXCEPT ![r] = None]
    /\ UNCHANGED <<ui, env, res, stubs, tracingResponse, optimizedPrompt, messages, intent, context,
                   result>>

\* generateResponse: await fetchOptimizedPrompt({ modelId: 'generateResponse' }), bestPrompt, messages
E_GenerateFetchPrompt(r) ==
    /\ r \in EnhRuns /\ pc[r] = "gen_fetch"
    /\ Log(r, "fetchOptimizedPrompt", "generateResponse")
    /\ \E a \in PromptAnswers \cup {Throws} :
         IF a = Throws
         THEN /\ Raise(r, Err("FetchPromptError", "generateResponse"), "gen_track_err")
              /\ UNCHANGED <<optimizedPrompt, messages>>
         ELSE /\ optimizedPrompt' = [optimizedPrompt EXCEPT ![r] = a]
              /\ messages' = [messages EXCEPT ![r] =
                    Messages(BestPrompt(a, GeneratePrompt(context[r])),
                             context[r].intent.userMessage)]
              /\ Continue(r, "gen_llm") /\ UNCHANGED err
    /\ UNCHANGED <<ui, env, res, stubs, tracingResponse, stageOutput, intent, context, result>>

\* generateResponse: await this.llm.invoke(messages), clean, parse
E_GenerateInvoke(r) ==
    /\ r \in EnhRuns /\ pc[r] = "gen_llm"
    /\ \E a \in Answers(llmStub, messages[r], GenerateContents \cup {Throws}) :
         /\ llmStub' = Fix(llmStub, messages[r], a)
         /\ Log(r, "llm.generate", messages[r])
         /\ IF a = Throws
            THEN /\ Raise(r, Err("LLMError", "generateResponse"), "gen_track_err")
                 /\ UNCHANGED stageOutput
            ELSE IF GenerateAccepts(a)
            THEN /\ stageOutput' = [stageOutput EXCEPT ![r] = JsonParse(CleanGenerate(a))]
                 /\ Continue(r, "gen_track") /\ UNCHANGED err
            ELSE /\ Raise(r, Err("SyntaxError", "generateResponse"), "gen_track_err")
                 /\ UNCHANGED stageOutput
    /\ optimizedPrompt' = [optimizedPrompt EXCEPT ![r] = None]
    /\ UNCHANGED <<ui, env, res, embedStub, queryStub, tracingResponse, messages, intent, context, result>>

\* generateResponse: await trackNode({ input: messages, output: parsedResponse }); return
\* parsedResponse; processCustomerRequest returns { response, intent }
E_GenerateTrack(r) ==
    /\ r \in EnhRuns /\ pc[r] = "gen_track"
    /\ Track(r, "generateResponse", messages[r], stageOutput[r])
    /\ \E ok \in BOOLEAN :
         IF ok
         THEN /\ stageOutput' = [stageOutput EXCEPT ![r] =
                                   [response |-> stageOutput[r], intent |-> intent[r]]]
              /\ optimizedPrompt' = [optimizedPrompt EXCEPT ![r] = None]
              /\ messages' = [messages EXCEPT ![r] = None]
              /\ Continue(r, "end") /\ UNCHANGED err
         ELSE /\ Raise(r, TrackError("generateResponse.ok"), "gen_track_err")
              /\ UNCHANGED <<optimizedPrompt, messages, stageOutput>>
    /\ UNCHANGED <<ui, env, res, stubs, tracingResponse, intent, context, result>>

\* generateResponse, catch (error): await trackNode({ input: { prompt }, output: error }); throw error
E_GenerateTrackError(r) ==
    /\ r \in EnhRuns /\ pc[r] = "gen_track_err"
    /\ Track(r, "generateResponse", GeneratePrompt(context[r]), err[r])
    /\ \E ok \in BOOLEAN :
         IF ok THEN Continue(r, "pcr_catch") /\ UNCHANGED err
               ELSE Raise(r, TrackError("generateResponse.error"), "pcr_catch")
    /\ LeaveStage(r)
    /\ UNCHANGED <<ui, env, res, stubs, tracingResponse, intent, context, result>>

\* processCustomerRequest, catch (error): await trackNode({ input: { userMessage }, output: error });
\* throw error
E_TrackRequestError(r) ==
    /\ r \in EnhRuns /\ pc[r] = "pcr_catch"
    /\ Track(r, "processCustomerRequest", userMessage[r], err[r])
    /\ \E ok \in BOOLEAN :
         IF ok THEN Continue(r, "v2_catch") /\ UNCHANGED err
               ELSE Raise(r, TrackError("processCustomerRequest.error"), "v2_catch")
    /\ UNCHANGED <<ui, env, res, stubs, tracingResponse, optimizedPrompt, messages, stageOutput, intent,
                   context, result>>

\* processRequestVersion2: if (tracingResponse && executionId) await endTracing(...); return result
E_EndTracing(r) ==
    /\ r \in EnhRuns /\ pc[r] = "end"
    /\ IF Truthy(tracingResponse[r]) /\ Truthy(ExecutionId(r))
       THEN /\ Log(r, "endTracing", ExecutionId(r))
            /\ \E ok \in BOOLEAN :
                 IF ok THEN Return(r, stageOutput[r]) /\ UNCHANGED err
                       ELSE /\ Raise(r, Err("TracingError", "endTracing"), "v2_catch")
                            /\ UNCHANGED result
       ELSE Return(r, stageOutput[r]) /\ UNCHANGED <<err, calls>>
    /\ stageOutput' = [stageOutput EXCEPT ![r] = None]
    /\ UNCHANGED <<ui, env, res, stubs, tracingResponse, optimizedPrompt, messages, intent, context>>

\* a catch block that rethrows without ending the trace session
E_CatchWithoutEndTracing(r) ==
    /\ r \in EnhRuns /\ pc[r] = "v2_catch"
    /\ Throw(r, err[r])
    /\ UNCHANGED <<ui, env, res, stubs, tracingResponse, optimizedPrompt, messages, stageOutput,
                   intent, context, err, calls>>

\* processRequestVersion2, catch (error): if (tracingResponse?.executionId) try { await
\* endTracing(...) } catch (endError) { }; throw error
E_CatchEndTracing(r) ==
    /\ r \in EnhRuns /\ pc[r] = "v2_catch"
    /\ IF Truthy(ExecutionId(r))
       THEN Log(r, "endTracing", ExecutionId(r))
       ELSE UNCHANGED calls
    /\ Throw(r, err[r])
    /\ UNCHANGED <<ui, env, res, stubs, tracingResponse, optimizedPrompt, messages, stageOutput, intent,
                   context, err>>

EnhNext(r) ==
    \/ E_StartTracing(r)
    \/ E_InitializePinecone(r)
    \/ E_TrackRequest(r)
    \/ E_ClassifyFetchPrompt(r)
    \/ E_ClassifyInvoke(r)
    \/ E_ClassifyTrack(r)
    \/ E_ClassifyTrackError(r)
    \/ E_EmbedQuery(r)
    \/ E_Query(r)
    \/ E_SearchTrack(r)
    \/ E_SearchTrackError(r)
    \/ E_GenerateFetchPrompt(r)
    \/ E_GenerateInvoke(r)
    \/ E_GenerateTrack(r)
    \/ E_GenerateTrackError(r)
    \/ E_TrackRequestError(r)
    \/ E_EndTracing(r)
    \/ E_CatchEndTracing(r)

RunNext(r) == HttpNext(r) \/ StdNext(r) \/ EnhNext(r)

Next == \E r \in Runs : RunNext(r)

\* one request, posted to either endpoint
Init == \E r \in {"std", "enh"} : InitWith({r})

Spec == Init /\ [][Next]_vars

\* one request, with the knowledge base fully seeded
InitSeeded == Init /\ nDocs = MaxDocs

\* every awaited call settles, and the event loop resumes the request waiting for it
FairSpec == InitSeeded /\ [][Next]_vars /\ WF_vars(Next)

\* the steps of request r that resume it after an awaited trackNode call has settled
TrackSettles(r) ==
    \/ E_TrackRequest(r)
    \/ E_ClassifyTrack(r)
    \/ E_ClassifyTrackError(r)
    \/ E_SearchTrack(r)
    \/ E_SearchTrackError(r)
    \/ E_GenerateTrack(r)
    \/ E_GenerateTrackError(r)
    \/ E_TrackRequestError(r)

\* every step of request r but those
OtherSettles(r) ==
    \/ HttpNext(r)
    \/ StdNext(r)
    \/ E_StartTracing(r)
    \/ E_InitializePinecone(r)
    \/ E_ClassifyFetchPrompt(r)
    \/ E_ClassifyInvoke(r)
    \/ E_EmbedQuery(r)
    \/ E_Query(r)
    \/ E_GenerateFetchPrompt(r)
    \/ E_GenerateInvoke(r)
    \/ E_EndTracing(r)
    \/ E_CatchEndTracing(r)

\* every awaited call settles except that a trackNode call may never return: the model,
\* the embedding service, the store and the other Handit calls always answer or throw
SilentSinkSpec == InitSeeded /\ [][Next]_vars /\ WF_vars(\E r \in Runs : OtherSettles(r))

Finished(r) == pc[r] \in {"done", "failed"}

\* the same text posted to each endpoint: first to the standard one, then, once that
\* request is answered, to the enhanced one
Answered(r) == res[r] # NoResponse

InitPair ==
    /\ InitWith({"std", "enh"})
    /\ userMessage["std"] = userMessage["enh"]

NextPair ==
    \/ \E r \in StdRuns : HttpNext(r) \/ StdNext(r)
    \/ \E r \in EnhRuns : (\A q \in StdRuns : Answered(q)) /\ (HttpNext(r) \/ EnhNext(r))

SpecPair == InitPair /\ [][NextPair]_vars

\* the model answers that are a bare, well-formed JSON object with every field set
WellFormed(c) ==
    /\ c.body.t = "obj" /\ ~c.wrapped /\ ~c.ctl
    /\ \/ c.body.response = Answer
       \/ c.body.intent = Cat("product_question")

\* a narrowed environment: the model answers well-formed output or throws, a prompt
\* lookup answers null, the first override, or throws, and failures occur in one request only
Narrowed ==
    /\ \A k \in DOMAIN llmStub : llmStub[k] = Throws \/ WellFormed(llmStub[k])
    /\ \A r \in Runs : optimizedPrompt[r] \in {None, Null, Override(1)}
    /\ \A r, q \in Runs : (firstErr[r] # NoErr /\ firstErr[q] # NoErr) => r = q

\* two requests processed concurrently, both posted to the enhanced endpoint or one to
\* each endpoint: every interleaving of their awaits, in the narrowed environment. The
\* texts are interchangeable, so one request's is fixed and the other's is any body.
InitConc ==
    /\ \E inFlight \in {EnhRuns, {"std", "enh"}} : InitWith(inFlight)
    /\ nDocs = MaxDocs
    /\ userMessage["enh"] = Text(1)

NextConc == \E r \in Runs : RunNext(r) /\ Narrowed'

SpecConc == InitConc /\ [][NextConc]_vars

(***************************** chat windows ********************************)
\* the sends followed in the browser
MaxSends == 2

\* what the user may have typed when submitting: a text, or nothing
Typed == UserTexts \cup {Text(0)}

\* chatApi.post('api/chat', { message }): the path generateResponse posts to,
\* whichever window called it
PostPath(w) == "api/chat"

\* the requests each route of the server handles
Serves(path) == IF path = "api/chat/simple" THEN StdRuns ELSE EnhRuns

\* the POST fails without an HTTP response (error.response is undefined)
Unreachable == Response(-1, None)

\* a request posted by generateResponse: who sent it, where to, the request of the
\* server it became, the reply received, and whether handleSendMessage has resumed
Post(w, text) == [window |-> w, text |-> text, path |-> PostPath(w), run |-> "none",
                  reply |-> NoResponse, settled |-> FALSE]

\* generateResponse after the await: { answer: data.data.response.response }, or in its
\* catch block throw new Error(error.response?.data?.message || 'Failed to generate response');
\* axios rejects every status outside 2xx, and reading .response of null throws
Replied(answer) == [ok |-> TRUE, answer |-> answer, message |-> None]
Rejected(message) == [ok |-> FALSE, answer |-> None, message |-> message]
GenerateResponse(reply) ==
    IF reply.status = 200
    THEN IF CanReadFields(reply.body.data.response)
         THEN Replied(reply.body.data.response.response)
         ELSE Rejected(Literal("Failed to generate response"))
    ELSE IF reply.status = 500 /\ Truthy(reply.body.message)
         THEN Rejected(reply.body.message)
         ELSE Rejected(Literal("Failed to generate response"))

\* text: response.answer || "I couldn't understand that.", or in the catch block
\* text: error.message || "Sorry, there was an error processing your message."
BotText(outcome) ==
    IF outcome.ok
    THEN IF Truthy(outcome.answer) THEN outcome.answer
         ELSE Literal("I couldn't understand that.")
    ELSE IF Truthy(outcome.message) THEN outcome.message
         ELSE Literal("Sorry, there was an error processing your message.")

\* an update that writes the new message over the last one of the list
AppendMessageOverLast(list, text, sender) ==
    [list EXCEPT ![Len(list)] = [id |-> Len(list) + 1, text |-> text, sender |-> sender]]

\* setMessages((prev) => [...prev, { id: prev.length + 1, text, sender }])
AppendMessage(list, text, sender) ==
    Append(list, [id |-> Len(list) + 1, text |-> text, sender |-> sender])

\* ChatInput.handleSubmit: if (message.trim()) onSend(message); then handleSendMessage up
\* to its await: append the user message, setIsLoading(true), post the request
HandleSendMessage(w, text) ==
    /\ Len(posts) < MaxSends
    /\ Truthy(text)
    /\ chat' = [chat EXCEPT ![w] = AppendMessage(@, text, "user")]
    /\ isLoading' = [isLoading EXCEPT ![w] = TRUE]
    /\ posts' = Append(posts, Post(w, text))
    /\ UNCHANGED <<env, res, pc, stubs, tracingResponse, optimizedPrompt, messages,
                   stageOutput, intent, context, err, firstErr, result, calls>>

\* handleSendMessage after the await: append the bot message (the reply, or in the catch
\* block the error text), and in the finally block setIsLoading(false)
Settle(i) ==
    /\ posts[i].reply # NoResponse /\ ~posts[i].settled
    /\ chat' = [chat EXCEPT ![posts[i].window] =
                    AppendMessage(@, BotText(GenerateResponse(posts[i].reply)), "bot")]
    /\ isLoading' = [isLoading EXCEPT ![posts[i].window] = FALSE]
    /\ posts' = [posts EXCEPT ![i].settled = TRUE]
    /\ UNCHANGED <<env, res, pc, stubs, tracingResponse, optimizedPrompt, messages,
                   stageOutput, intent, context, err, firstErr, result, calls>>

\* the POST reaches the route's handler as request r of the server
Deliver(i, r) ==
    /\ posts[i].run = "none" /\ posts[i].reply = NoResponse
    /\ r \in Serves(posts[i].path) /\ pc[r] = "idle"
    /\ userMessage' = [userMessage EXCEPT ![r] = posts[i].text]
    /\ pc' = [pc EXCEPT ![r] = "posted"]
    /\ posts' = [posts EXCEPT ![i].run = r]
    /\ UNCHANGED <<handitKey, pineconeOk, nDocs, res, stubs, tracingResponse, optimizedPrompt,
                   messages, stageOutput, intent, context, err, firstErr, result, calls,
                   chat, isLoading>>

\* the handler's response reaches the browser
ReplyArrives(i) ==
    /\ posts[i].run # "none" /\ posts[i].reply = NoResponse
    /\ Answered(posts[i].run)
    /\ posts' = [posts EXCEPT ![i].reply = res[posts[i].run]]
    /\ UNCHANGED <<env, res, pc, stubs, tracingResponse, optimizedPrompt, messages,
                   stageOutput, intent, context, err, firstErr, result, calls, chat, isLoading>>

\* the POST fails: the server is not reachable
PostFails(i) ==
    /\ posts[i].run = "none" /\ posts[i].reply = NoResponse
    /\ posts' = [posts EXCEPT ![i].reply = Unreachable]
    /\ UNCHANGED <<env, res, pc, stubs, tracingResponse, optimizedPrompt, messages,
                   stageOutput, intent, context, err, firstErr, result, calls, chat, isLoading>>

\* the Chat page in front of the server, with no request posted yet
InitSite ==
    /\ InitWith({})
    /\ nDocs = MaxDocs

\* the user sends from either window; the first request posted is followed through the
\* server, in the narrowed environment, and back to its window
NextSite ==
    \/ \E w \in Windows, text \in Typed : HandleSendMessage(w, text)
    \/ \E i \in DOMAIN posts, r \in {"std", "enh"} : (\A q \in Runs : pc[q] = "idle") /\ Deliver(i, r)
    \/ \E r \in EnhRuns : (HttpNext(r) \/ EnhNext(r)) /\ Narrowed'
    \/ \E i \in DOMAIN posts : ReplyArrives(i)
    \/ \E i \in DOMAIN posts : PostFails(i)
    \/ \E i \in DOMAIN posts : Settle(i)

SpecSite == InitSite /\ [][NextSite]_vars

\* what either route may answer to a request with a truthy text: success with the
\* generated response, or the 500 of the handler's catch block
Replies(text) ==
    { Response(200, [status |-> "success",
                     data |-> [response |-> JsonParse(CleanGenerate(c)),
                               intent |-> Obj(Cat("product_question"), Num(9), text,
                                              Undefined)]]) :
        c \in {Content(Obj(Undefined, Undefined, Undefined, Answer), FALSE, FALSE),
               Content(Obj(Undefined, Undefined, Undefined, Undefined), FALSE, FALSE),
               Content(Null, FALSE, FALSE)} }
    \cup { Response(500, [error |-> "Internal server error",
                          message |-> ErrorMessage(Err("LLMError", "generateResponse"))]) }

\* the server answers a request, seen from the browser
ServerReplies(i) ==
    /\ posts[i].run = "none" /\ posts[i].reply = NoResponse
    /\ \E a \in Replies(posts[i].text) : posts' = [posts EXCEPT ![i].reply = a]
    /\ UNCHANGED <<env, res, pc, stubs, tracingResponse, optimizedPrompt, messages,
                   stageOutput, intent, context, err, firstErr, result, calls, chat, isLoading>>

\* the Chat page alone: the user sends from either window while earlier sends are still
\* awaited, and each request is answered, or fails, at any later time and in any order
InitChat ==
    /\ InitWith({})
    /\ handitKey /\ pineconeOk /\ nDocs = MaxDocs

NextChat ==
    \/ \E w \in Windows, text \in Typed : HandleSendMessage(w, text)
    \/ \E i \in DOMAIN posts : ServerReplies(i)
    \/ \E i \in DOMAIN posts : PostFails(i)
    \/ \E i \in DOMAIN posts : Settle(i)

SpecChat == InitChat /\ [][NextChat]_vars

(***************************** the calls of a run **************************)
Made(r, op) == \E i \in DOMAIN calls[r] : calls[r][i].op = op
Count(r, op) == Cardinality({i \in DOMAIN calls[r] : calls[r][i].op = op})

\* the model, embedding and store calls, by the stage that makes them
StageRank(op) ==
    CASE op = "llm.classify" -> 1
      [] op \in {"embedQuery", "query"} -> 2
      [] op = "llm.generate" -> 3
      [] OTHER -> 0

\* the answer the stub model gave to the classify call of run r
ClassifyAnswers(r) ==
    {llmStub[calls[r][i].arg] : i \in {j \in DOMAIN calls[r] : calls[r][j].op = "llm.classify"}}

(***************************** claims **************************************)
\* C1: in every run the stages execute in the order classify, retrieve, generate: an
\* embedding or store call is made only after the classify model call of that run and once
\* classify has returned an intent, the generate model call only after the store query and
\* once retrieve has returned its context, and no call of an earlier stage follows a call
\* of a later one.
C1_StagesInOrder ==
    \A r \in Runs : \A j \in DOMAIN calls[r] :
        LET op == calls[r][j].op IN
        /\ op \in {"embedQuery", "query"} =>
              /\ intent[r] # None
              /\ \E i \in 1..(j - 1) : calls[r][i].op = "llm.classify"
        /\ op = "query" => \E i \in 1..(j - 1) : calls[r][i].op = "embedQuery"
        /\ op = "llm.generate" =>
              /\ context[r] # None
              /\ \E i \in 1..(j - 1) : calls[r][i].op = "query"
        /\ StageRank(op) > 0 =>
              \A i \in 1..(j - 1) : StageRank(calls[r][i].op) <= StageRank(op)

\* a run that went through all three stages and returned
C1_AllStagesRun ==
    \E r \in Runs : pc[r] = "done" /\ Made(r, "llm.classify") /\ Made(r, "query")
                    /\ Made(r, "llm.generate")

\* the model output lacks the required shape: it is not JSON, or intent, confidence or
\* userMessage is missing
Malformed(c) ==
    \/ c.body.t # "obj"
    \/ c.ctl
    \/ c.body.intent = Undefined
    \/ c.body.confidence = Undefined
    \/ c.body.userMessage = Undefined

\* C2: if the classify stage's model output is not JSON or lacks intent, confidence or
\* userMessage, the run does not return a reply and makes no embedding call, no store query
\* and no generate-stage model call.
C2_MalformedClassifyStops ==
    \A r \in Runs :
        (\E c \in ClassifyAnswers(r) : c # Throws /\ Malformed(c)) =>
            /\ pc[r] # "done"
            /\ ~Made(r, "embedQuery") /\ ~Made(r, "query") /\ ~Made(r, "llm.generate")
            /\ Finished(r) => result[r].status = "error"

\* a run failed on a model output that is a JSON object lacking a required field
C2_MalformedClassifyFailed ==
    \E r \in Runs : /\ pc[r] = "failed"
                    /\ \E c \in ClassifyAnswers(r) :
                          c # Throws /\ Malformed(c) /\ c.body.t = "obj" /\ ~c.ctl

\* C10: no retries: within one run the classify model call, the embedding call, the store
\* query and the generate model call are each made at most once.
C10_NoRetries ==
    \A r \in Runs :
        \A op \in {"llm.classify", "embedQuery", "query", "llm.generate"} : Count(r, op) <= 1

\* a run failed after its one embedding call threw
C10_FailedAfterCalls ==
    \E r \in Runs : /\ pc[r] = "failed"
                    /\ Count(r, "embedQuery") = 1
                    /\ firstErr[r] = Err("StoreError", "embedQuery")

\* the embedding call or the store query of run r threw
StoreThrew(r) ==
    \/ \E i \in DOMAIN calls[r] :
          calls[r][i].op = "embedQuery" /\ embedStub[calls[r][i].arg] = "throw"
    \/ \E i \in DOMAIN calls[r] :
          calls[r][i].op = "query" /\ queryStub[calls[r][i].arg.vector] = "throw"

\* C3: if the embedding call or the store query throws, the run fails with that store
\* error and the generate-stage model call is never made.
C3_StoreFailurePropagates ==
    \A r \in Runs :
        StoreThrew(r) =>
            /\ pc[r] # "done"
            /\ ~Made(r, "llm.generate")
            /\ Finished(r) => result[r] = Thrown(firstErr[r])
            /\ Finished(r) => result[r].error.kind = "StoreError"

\* C4: a failing trackNode call never aborts the pipeline and is never surfaced: no run
\* has a trackNode failure as the error that made it leave the pipeline, and no caller
\* receives one.
C4_TrackFailureSwallowed ==
    \A r \in EnhRuns :
        /\ firstErr[r].kind # "TrackError"
        /\ result[r].error.kind # "TrackError"

\* C5: the same text, run through the standard agent and through the enhanced agent (with
\* Handit configured) on the same deterministic model and store stubs, yields the same
\* outcome: both runs return the identical reply and intent.
C5_SinkTransparent ==
    \A s \in StdRuns, e \in EnhRuns :
        (handitKey /\ Finished(s) /\ Finished(e) /\ userMessage[s] = userMessage[e]) =>
            /\ result[s].status = result[e].status
            /\ result[s].value = result[e].value

LastCall(r) == calls[r][Len(calls[r])]

\* the prompt a step resolves to: the override when the lookup returned one, else its default
Resolved(answer, default) == IF answer.t = "override" THEN answer ELSE default

\* C6: in the classify and generate stages of the enhanced agent the system prompt sent to
\* the model is the override when fetchOptimizedPrompt returned one, and the step's default
\* prompt (a function of the step and its inputs alone) when it returned null or undefined.
C6_PromptResolution ==
    [][\A r \in EnhRuns :
         /\ (pc[r] = "cls_llm" /\ pc'[r] # "cls_llm") =>
               /\ LastCall(r)'.op = "llm.classify"
               /\ LastCall(r)'.arg.system =
                     Resolved(optimizedPrompt[r], ClassifyPrompt(userMessage[r]))
         /\ (pc[r] = "gen_llm" /\ pc'[r] # "gen_llm") =>
               /\ LastCall(r)'.op = "llm.generate"
               /\ LastCall(r)'.arg.system =
                     Resolved(optimizedPrompt[r], GeneratePrompt(context[r]))]_vars

\* both stages of a run called the model, one with an override and one with the default
\* prompt after a lookup that returned undefined
C6_OverrideAndDefaultSent ==
    \E r \in EnhRuns :
        /\ pc[r] = "gen_track"
        /\ \E i \in DOMAIN calls[r] :
              calls[r][i].op = "llm.classify" /\ calls[r][i].arg.system.t = "override"
        /\ LastCall(r).arg.system = GeneratePrompt(context[r])

\* C7: when fetchOptimizedPrompt throws, the stage falls back silently to its default
\* prompt: the lookup error is never raised in the run.
C7_LookupFailureSilent ==
    \A r \in EnhRuns : firstErr[r].kind # "FetchPromptError"

\* a reply whose response text is a non-empty string
HasReplyText(v) ==
    /\ v.response.t = "obj"
    /\ v.response.response.t = "text"
    /\ v.response.response.id # 0

\* C8: a run that returns successfully returns a reply with a non-empty response text.
C8_ReplyHasText ==
    \A r \in Runs : pc[r] = "done" => HasReplyText(result[r].value)

\* C9: an Intent returned by the classify stage has a category among the four fixed values
\* and a confidence in [0,1].
C9_IntentWellFormed ==
    \A r \in Runs :
        intent[r] # None =>
            /\ intent[r].intent.t = "cat"
            /\ intent[r].intent.name \in Categories
            /\ intent[r].confidence.t = "num"
            /\ intent[r].confidence.tenths \in 0..10

(***************************** error propagation ***************************)
\* a stage name, as an error would carry it
StageName(n) == [t |-> "stage", name |-> n]

\* the stage whose own work (model call, parse, embedding, store query) raised error e
StageFailed(e) ==
    CASE e.kind \in {"LLMError", "InvalidResponse", "ParseError"} /\ e.site = "classifyIntent"
            -> "classify"
      [] e.kind = "StoreError" -> "retrieve"
      [] e.kind \in {"LLMError", "SyntaxError"} /\ e.site = "generateResponse" -> "generate"
      [] OTHER -> "none"

\* C11: when a stage fails, the error that reaches the caller of the pipeline carries the
\* name of the failing stage (classify, retrieve or generate).
C11_ErrorNamesStage ==
    \A r \in Runs :
        (pc[r] = "failed" /\ StageFailed(firstErr[r]) # "none") =>
            result[r].error.stage = StageName(StageFailed(firstErr[r]))

\* error e is failure f, or the error classifyIntent throws in place of its parse or
\* validation failure f
SameFailure(e, f) ==
    \/ e = f
    \/ /\ f = Err("InvalidResponse", "classifyIntent")
       /\ e = Err("ParseError", "classifyIntent")

\* C12: when the first failure of a run is a stage error, that error is the one that
\* reaches the caller: a failure raised later, while the stage error is handled (an
\* error-report trackNode or endTracing failing in a catch block), never replaces it.
C12_FirstFailureReachesCaller ==
    \A r \in Runs :
        (pc[r] = "failed" /\ StageFailed(firstErr[r]) # "none") =>
            SameFailure(result[r].error, firstErr[r])

(***************************** correlation id ******************************)
\* the executionId a trackNode or endTracing call carries
CallId(c) == IF c.op = "endTracing" THEN c.arg ELSE c.arg.executionId

\* C13: every trackNode call of an enhanced run, and its endTracing call, carries the
\* executionId that the startTracing call of that run returned, and never the id issued to
\* another, concurrently processed request.
C13_OneCorrelationId ==
    \A r \in EnhRuns : \A i \in DOMAIN calls[r] :
        calls[r][i].op \in {"trackNode", "endTracing"} =>
            /\ \E j \in 1..(i - 1) :
                  /\ calls[r][j].op = "startTracing"
                  /\ calls[r][j].arg.t = "resp"
                  /\ CallId(calls[r][i]) = calls[r][j].arg.executionId
            /\ \A q \in EnhRuns \ {r} : CallId(calls[r][i]) # ExecId(q)

\* two requests in flight at once, each with its own id and with reports sent, one of them
\* about to end its session while the other is still in its pipeline
C13_TwoRunsReporting ==
    \E r, q \in EnhRuns :
        /\ r # q
        /\ ExecutionId(r) = ExecId(r) /\ ExecutionId(q) = ExecId(q)
        /\ Made(r, "endTracing") /\ Count(r, "trackNode") >= 4
        /\ pc[q] = "skb_track" /\ Count(q, "trackNode") >= 2

(***************************** trace session *******************************)
\* run r has called endTracing for the executionId its startTracing returned
SessionEnded(r) ==
    \E i \in DOMAIN calls[r] : calls[r][i] = Call("endTracing", ExecutionId(r))

\* C14: in every enhanced run in which startTracing returned an executionId, endTracing is
\* eventually called for that executionId, whether the pipeline succeeds or a stage fails.
C14_SessionEventuallyEnded ==
    \A r \in EnhRuns : [](Truthy(ExecutionId(r)) => <>SessionEnded(r))

\* a run whose generate stage failed has ended its trace session
C14_EndedAfterStageFailure ==
    \E r \in EnhRuns :
        /\ pc[r] = "failed" /\ StageFailed(firstErr[r]) = "generate"
        /\ Truthy(ExecutionId(r)) /\ SessionEnded(r)

\* C15: reports are fire-and-forget: an enhanced run that has entered its pipeline
\* eventually returns its reply unless some call fails, even when a trackNode call never
\* returns.
C15_RunCompletesWithSilentSink ==
    \A r \in EnhRuns :
        (pc[r] = "pcr_track") ~> (pc[r] = "done" \/ firstErr[r] # NoErr)

(***************************** data flow between stages ********************)
\* C16: the Intent produced by the classify stage holds the original request text
\* unchanged, and the text embedded by the retrieve stage is the text the caller passed.
C16_OriginalTextKept ==
    \A r \in Runs :
        /\ intent[r] # None => intent[r].userMessage = userMessage[r]
        /\ \A i \in DOMAIN calls[r] :
              calls[r][i].op = "embedQuery" => calls[r][i].arg = userMessage[r]

\* the input of a model call contains the retrieved matches
ContainsMatches(msgs, results) ==
    \/ results = <<>>
    \/ msgs.system.t = "tmpl" /\ msgs.system.knowledge = results

\* C17: in every run that reaches the generate stage, the input sent to the model in that
\* stage contains the matches returned by the retrieve stage of that run, with the default
\* prompt and with an override prompt.
C17_GenerateSeesMatches ==
    \A r \in Runs : \A i \in DOMAIN calls[r] :
        calls[r][i].op = "llm.generate" => ContainsMatches(calls[r][i].arg, context[r].results)

\* C18: the retrieve stage returns at most 3 matches, in the order in which the store
\* returned them (most relevant first), and its count field is the number of matches.
C18_TopMatchesInOrder ==
    \A r \in Runs :
        context[r] # None =>
            LET found == context[r].results
                matches == StoreQuery(nDocs, Embed(context[r].intent.userMessage), TopK)
            IN  /\ Len(found) <= 3
                /\ context[r].count = Len(found)
                /\ Len(found) = Len(matches)
                /\ \A i \in DOMAIN found :
                      /\ found[i].metadata = matches[i].metadata
                      /\ found[i].pageContent = matches[i].metadata.text
                /\ \A i, j \in DOMAIN matches : i < j => matches[i].score >= matches[j].score

\* a retrieve stage returned three matches from a store that holds more documents
C18_ThreeOfMore ==
    \E r \in Runs :
        /\ context[r] # None
        /\ Len(context[r].results) = 3 /\ context[r].count = 3
        /\ nDocs > 3

(***************************** HTTP responses ******************************)
\* C19: at both POST endpoints every error thrown by the pipeline, whatever its kind, is
\* answered with status 500 and the error's message, a successful run is answered with
\* {status: 'success', data: {response, intent}}, and no pipeline error is answered with a
\* success response.
C19_ErrorsAnsweredWith500 ==
    \A r \in Runs :
        (Finished(r) /\ Answered(r)) =>
            IF result[r].status = "error"
            THEN /\ res[r].status = 500
                 /\ res[r].body.error = "Internal server error"
                 /\ res[r].body.message = ErrorMessage(result[r].error)
            ELSE /\ res[r].status = 200
                 /\ res[r].body.status = "success"
                 /\ res[r].body.data = [response |-> result[r].value.response,
                                        intent |-> intent[r]]

\* a request to the enhanced endpoint whose run failed on a sink error was answered 500
C19_SinkErrorAnswered ==
    \E r \in EnhRuns :
        /\ pc[r] = "failed" /\ result[r].error.kind = "TrackError"
        /\ res[r].status = 500

\* C20: a POST whose message is missing or empty is answered with status 400 and error
\* 'Message is required', and no pipeline run is started for it: no tracing, model,
\* embedding or store call is made.
C20_EmptyMessageRejected ==
    \A r \in Runs :
        ~Truthy(userMessage[r]) =>
            /\ pc[r] \in {"idle", "posted", "rejected"}
            /\ calls[r] = <<>>
            /\ result[r] = Pending
            /\ pc[r] = "rejected" <=> res[r] = Response(400, [error |-> "Message is required"])
            /\ pc[r] # "rejected" => res[r] = NoResponse

\* a request with an empty message was answered 400
C20_EmptyMessageAnswered ==
    \E r \in Runs :
        /\ userMessage[r] = Text(0)
        /\ pc[r] = "rejected" /\ res[r].status = 400

(***************************** concurrent requests *************************)
\* the argument of the call `op` that run r made (each is made at most once)
ArgOf(r, op) == calls[r][CHOOSE i \in DOMAIN calls[r] : calls[r][i].op = op].arg

\* C21: concurrent requests are independent. Under every interleaving, whatever a request
\* passes to the model, the embedding service and the store derives from its own message
\* and from the deterministic stubs' answers to its own calls, and what it returns or
\* throws is its own: nothing a request reads was written by another request.
C21_RequestsIndependent ==
    \A r \in Runs :
        /\ Made(r, "llm.classify") =>
              /\ ArgOf(r, "llm.classify").user = userMessage[r]
              /\ ArgOf(r, "llm.classify").system \in
                    {ClassifyPrompt(userMessage[r])} \cup {Override(i) : i \in 1..NumOverrides}
        /\ intent[r] # None =>
              intent[r] = JsonParse(CleanClassify(llmStub[ArgOf(r, "llm.classify")]))
        /\ Made(r, "embedQuery") => ArgOf(r, "embedQuery") = intent[r].userMessage
        /\ Made(r, "query") => ArgOf(r, "query").vector = Embed(intent[r].userMessage)
        /\ context[r] # None =>
              context[r] = SearchResults(StoreQuery(nDocs, Embed(intent[r].userMessage), TopK),
                                         intent[r])
        /\ Made(r, "llm.generate") =>
              /\ ArgOf(r, "llm.generate").user = intent[r].userMessage
              /\ ArgOf(r, "llm.generate").system \in
                    {GeneratePrompt(context[r])} \cup {Override(i) : i \in 1..NumOverrides}
        /\ pc[r] = "done" =>
              result[r].value =
                 [response |-> JsonParse(CleanGenerate(llmStub[ArgOf(r, "llm.generate")])),
                  intent |-> intent[r]]
        /\ pc[r] = "failed" => result[r].error \in {firstErr[r], err[r]}

\* two requests with different texts are both in the middle of their pipelines
C21_TwoRequestsInFlight ==
    \E r, q \in Runs :
        /\ r # q /\ userMessage[r] # userMessage[q]
        /\ Made(r, "llm.generate") /\ ~Finished(r)
        /\ Made(q, "embedQuery") /\ ~Made(q, "llm.generate") /\ ~Finished(q)

(***************************** the two windows *****************************)
HanditOps == {"startTracing", "trackNode", "fetchOptimizedPrompt", "endTracing"}

\* C22: the two chat windows differ only in Handit. A message sent from the standard window
\* is processed by the standard pipeline, which makes no tracing or prompt-override call,
\* and a message sent from the enhanced window by the Handit-instrumented pipeline.
C22_WindowsDifferOnlyInHandit ==
    \A i \in DOMAIN posts :
        posts[i].run # "none" =>
            IF posts[i].window = "ChatWindow"
            THEN /\ posts[i].run \in StdRuns
                 /\ \A op \in HanditOps : ~Made(posts[i].run, op)
            ELSE posts[i].run \in EnhRuns

(***************************** stage reports *******************************)
\* the stage (1 classify, 2 retrieve, 3 generate) a call belongs to, 0 for the calls made
\* outside the stages
StageOfCall(c) ==
    CASE c.op = "llm.classify" -> 1
      [] c.op \in {"embedQuery", "query"} -> 2
      [] c.op = "llm.generate" -> 3
      [] c.op = "fetchOptimizedPrompt" -> IF c.arg = "classifyIntent" THEN 1 ELSE 3
      [] c.op = "trackNode" ->
            (CASE c.arg.nodeName = "classifyIntent" -> 1
               [] c.arg.nodeName = "searchKnowledgeBase" -> 2
               [] c.arg.nodeName = "generateResponse" -> 3
               [] OTHER -> 0)
      [] OTHER -> 0

\* the reports run r sent for stage s
Reports(r, s) ==
    {i \in DOMAIN calls[r] : calls[r][i].op = "trackNode" /\ StageOfCall(calls[r][i]) = s}

\* stage s of run r has returned its result to processCustomerRequest
Completed(r, s) ==
    CASE s = 1 -> intent[r] # None
      [] s = 2 -> context[r] # None
      [] s = 3 -> pc[r] \in {"end", "done"} \/ firstErr[r] = Err("TracingError", "endTracing")

\* the input and output of stage s of run r, once it has completed
StageInput(r, s) ==
    CASE s = 1 -> ArgOf(r, "llm.classify")
      [] s = 2 -> intent[r]
      [] s = 3 -> ArgOf(r, "llm.generate")
StageResult(r, s) ==
    CASE s = 1 -> intent[r]
      [] s = 2 -> context[r]
      [] s = 3 -> JsonParse(CleanGenerate(llmStub[ArgOf(r, "llm.generate")]))

\* C23: for every stage of an enhanced run that completes successfully, exactly one report
\* carrying the stage's name, its input and its output is sent to the sink, after the
\* stage's result is produced and before the next stage begins; and no report for a stage
\* is sent before that stage has started.
C23_OneReportPerCompletedStage ==
    \A r \in EnhRuns : \A s \in 1..3 :
        /\ Completed(r, s) =>
              \E i \in Reports(r, s) :
                 /\ Reports(r, s) = {i}
                 /\ calls[r][i].arg.input = StageInput(r, s)
                 /\ calls[r][i].arg.output = StageResult(r, s)
                 /\ \A j \in DOMAIN calls[r] :
                       /\ (StageOfCall(calls[r][j]) = s /\ j # i) => j < i
                       /\ StageOfCall(calls[r][j]) > s => j > i
        /\ \A i \in Reports(r, s) :
              \E j \in 1..(i - 1) :
                 StageOfCall(calls[r][j]) = s /\ calls[r][j].op # "trackNode"

\* a run has completed its three stages and returned
C23_ThreeStagesReported ==
    \E r \in EnhRuns :
        /\ pc[r] = "done"
        /\ \A s \in 1..3 : Completed(r, s) /\ Reports(r, s) # {}

(***************************** ending the session **************************)
\* C24: endTracing is called at most once per enhanced run: no sequence of failures, the
\* failure of endTracing on the success path included, ends the trace session twice.
C24_EndTracingAtMostOnce == \A r \in EnhRuns : Count(r, "endTracing") <= 1

(***************************** the parse error *****************************)
\* C25: in the enhanced agent classifyIntent fails with 'Failed to parse LLM response as
\* JSON' only if the model's output was not parseable or lacked a required field: an output
\* that parsed and validated never results in that error.
C25_ParseErrorOnlyForBadOutput ==
    \A r \in EnhRuns :
        (\E e \in {err[r], firstErr[r], result[r].error} :
            e = Err("ParseError", "classifyIntent"))
        => \A c \in ClassifyAnswers(r) : c # Throws /\ ~ClassifyAccepts(c)

(***************************** configuration *******************************)
\* C26: when HANDIT_API_KEY is not configured, processRequestVersion2 fails before making
\* any external call: startTracing, trackNode, endTracing, the model, the embedding service
\* and the store are never invoked in that run.
C26_NoKeyNoExternalCall ==
    \A r \in EnhRuns :
        ~handitKey =>
            /\ calls[r] = <<>>
            /\ pc[r] \in {"idle", "posted", "rejected", "start", "v2_catch", "failed"}
            /\ pc[r] = "failed" => result[r].error = Err("ConfigError", "HANDIT_API_KEY")

\* a run has failed for want of the key
C26_FailedWithoutKey ==
    \E r \in EnhRuns : ~handitKey /\ pc[r] = "failed" /\ result[r].error.kind = "ConfigError"

(***************************** confidence **********************************)
\* a parseable model output that is an Intent: one of the four categories, a non-empty
\* text and a confidence in [0,1]
IsIntent(c) ==
    /\ c # Throws /\ Parses(CleanClassify(c))
    /\ LET p == JsonParse(CleanClassify(c)) IN
         /\ p.t = "obj"
         /\ p.intent.t = "cat" /\ p.intent.name \in Categories
         /\ p.userMessage.t = "text" /\ p.userMessage.id # 0
         /\ p.confidence.t = "num" /\ p.confidence.tenths \in 0..10

\* C27: the classify stage accepts every parseable model output whose category is one of
\* the four fixed values, whose text is non-empty and whose confidence is in [0,1], the
\* boundary values 0 and 1 included: it does not reject it as malformed.
C27_AcceptsEveryIntent ==
    \A r \in Runs :
        (\E c \in ClassifyAnswers(r) : IsIntent(c))
        => firstErr[r] \notin {Err("InvalidResponse", "classifyIntent"),
                               Err("ParseError", "classifyIntent")}

(***************************** the message list ****************************)
\* the sends of window w, and those whose handleSendMessage has resumed
Sent(w) == {i \in DOMAIN posts : posts[i].window = w}
Resumed(w) == {i \in Sent(w) : posts[i].settled}

\* the places of chat[w] holding a message of the given sender, the greeting aside
Places(w, sender) == {k \in 2..Len(chat[w]) : chat[w][k].sender = sender}

\* one user message per send and one bot message per settled request, each with its text
OneMessageEach ==
    \A w \in Windows :
        /\ chat[w][1] = Greeting
        /\ Cardinality(Places(w, "user")) = Cardinality(Sent(w))
        /\ Cardinality(Places(w, "bot")) = Cardinality(Resumed(w))
        /\ \A i \in Sent(w) : \E k \in Places(w, "user") : chat[w][k].text = posts[i].text
        /\ \A i \in Resumed(w) : \E k \in Places(w, "bot") :
              chat[w][k].text = BotText(GenerateResponse(posts[i].reply))

\* a step leaves every message in its place, unchanged
MessagesKept ==
    \A w \in Windows :
        /\ Len(chat'[w]) >= Len(chat[w])
        /\ SubSeq(chat'[w], 1, Len(chat[w])) = chat[w]

\* C28: in a chat window every message sent through handleSendMessage appends exactly one
\* user message and, once its request settles, exactly one bot message (the reply or the
\* error text); the list only grows and existing messages are never removed or changed,
\* also when several sends are in flight at once.
C28_MessageListAppendOnly == []OneMessageEach /\ [][MessagesKept]_vars

\* two sends of one window were in flight at once and both have settled
C28_TwoSendsOverlapped ==
    \E w \in Windows :
        /\ Cardinality(Resumed(w)) >= 2
        /\ Len(chat[w]) >= 5
        /\ chat[w][2].sender = "user" /\ chat[w][3].sender = "user"

(***************************** the loading indicator ***********************)
\* C29: in a chat window isLoading is true exactly while at least one request of that
\* window is outstanding: it is never false while a sent message still awaits its
\* response, also when a second message is sent before the first response arrives.
C29_LoadingWhileOutstanding ==
    \A w \in Windows : isLoading[w] = (Sent(w) # Resumed(w))

====
